---- MODULE Spec2Model ----
(***************************************************************************)
(* Model of the M-of-N multisig program (multisig_core + multisig_program). *)
(*                                                                         *)
(* State: the MultisigState record of every create_key, and the Proposal   *)
(* records.  One action per instruction of multisig_program::process; each *)
(* action evaluates the whole handler on the pre-state and commits the     *)
(* post-state the handler returns.  A handler that panics (assert!) returns *)
(* nothing, so the stored records stay as they were.                        *)
(*                                                                         *)
(* The repository holds handlers of two generations.  propose.rs,          *)
(* propose_config.rs and approve.rs read and write the proposal through    *)
(* the proposal account passed at accounts[2].  reject.rs and execute.rs   *)
(* look the proposal up with state.get_proposal_mut(proposal_index), act   *)
(* on proposal.action, and execute.rs ends with                            *)
(* state.clear_all_proposals().  Both are modelled on one collection of    *)
(* proposal records: a record is identified by (multisig_create_key,       *)
(* index); an account reference names the record the account holds.        *)
(*                                                                         *)
(* The module also holds the multisig instructions of the treasury program *)
(* (treasury_core + treasury_program), which keep one MultisigState and    *)
(* take their signers from the account list, and the two list_proposals    *)
(* queries of lez-multisig-ffi.                                            *)
(***************************************************************************)
EXTENDS Integers, Sequences, FiniteSets, TLC

VARIABLES
    multisig,    \* create_key -> MultisigState account (or the default account)
    proposals,   \* set of Proposal records that exist
    last,        \* the last instruction that succeeded
    derived,     \* the last two PDA seed derivations a client made
    treasury     \* treasury program: its MultisigState account and its vault

vars == <<multisig, proposals, last, derived, treasury>>

---------------------------------------------------------------------------
(* Bounds of the model *)

\* Propose is not offered once transaction_index reached this value
MaxProposals == 2
\* threshold arguments are drawn from 0..MaxThresholdArg
MaxThresholdArg == 3
\* SpecPair: Propose is not offered while this many proposals exist
MaxLive == 2
\* SpecPair: a multisig with more members takes one proposal at a time
PairMembers == 2

\* proposal indices and key tails of the seed derivations are 0..MaxSeedIndex
MaxSeedIndex == 2

\* treasury: an instruction carries up to MaxSigners signer accounts
MaxSigners == 3
\* treasury: no instruction is offered once the nonce reached this value
MaxNonce == 3
\* treasury: vault balances and amounts are drawn from 0..MaxVaultBalance
MaxVaultBalance == 2

(* Program constants *)

\* create_multisig.rs:30, propose_config.rs:40, execute.rs:67
MaxMembers == 10

---------------------------------------------------------------------------
(* Input domains *)

Ids == {"A", "B", "C"}

Keys == {"k1"}

LongList(n) == [i \in 1..n |-> "A"]

\* member lists offered to CreateMultisig: empty, distinct members, a list
\* with a duplicate, and lists just below, at and above the 10-member cap
CreateMemberLists ==
    { <<>>, <<"A">>, <<"A", "B">>, <<"A", "B", "C">>, <<"A", "A", "B">>,
      LongList(MaxMembers - 1), LongList(MaxMembers), LongList(MaxMembers + 1) }

ThresholdArgs == 0..MaxThresholdArg

NoAction == [type |-> "None", member |-> "-", new_threshold |-> 0]
AddMember(m) == [type |-> "AddMember", member |-> m, new_threshold |-> 0]
RemoveMember(m) == [type |-> "RemoveMember", member |-> m, new_threshold |-> 0]
ChangeThreshold(v) == [type |-> "ChangeThreshold", member |-> "-", new_threshold |-> v]

ConfigActions ==
    {AddMember(m) : m \in Ids} \cup {RemoveMember(m) : m \in Ids}
        \cup {ChangeThreshold(v) : v \in ThresholdArgs}

\* the ChainedCall parameters of a Propose instruction
NoCall == [target_program_id |-> "-", target_instruction_data |-> <<>>,
           target_account_count |-> 0, pda_seeds |-> <<>>,
           authorized_indices |-> <<>>]
CallDescriptors ==
    { [target_program_id |-> "token", target_instruction_data |-> <<"transfer">>,
       target_account_count |-> 2, pda_seeds |-> <<"vault">>,
       authorized_indices |-> <<0>>] }

\* an account passed as the proposal account: index 0 names an account that
\* never held a proposal
AccountRefs == Keys \X (0..MaxProposals)

ProposalIndexArgs == 0..MaxProposals

\* the target accounts passed with an Execute: none, the two the call
\* descriptor counts, and one more
TargetAccountLists == { <<>>, <<"src", "dst">>, <<"src", "dst", "extra">> }

---------------------------------------------------------------------------
(* multisig_core: MultisigState *)

\* Account::default(): no data
DefaultAccount ==
    [initialized |-> FALSE, create_key |-> "-", threshold |-> 0,
     member_count |-> 0, members |-> <<>>, transaction_index |-> 0]

MultisigState_new(create_key, threshold, members) ==
    [initialized |-> TRUE, create_key |-> create_key, threshold |-> threshold,
     member_count |-> Len(members), members |-> members, transaction_index |-> 0]

contains(seq, x) == \E i \in 1..Len(seq) : seq[i] = x

\* fault: retain with the predicate turned round
retain_eq(seq, x) == SelectSeq(seq, LAMBDA y : y = x)

retain_ne(seq, x) == SelectSeq(seq, LAMBDA y : y # x)

\* fault: every identity passes the membership check
is_member_anyone(state, id) == TRUE

is_member(state, id) == contains(state.members, id)

\* fault: numbering a proposal also resets the threshold
next_proposal_index_resets_threshold(state) ==
    [state EXCEPT !.transaction_index = @ + 1, !.threshold = 1]

\* increments the counter; the new value is the index of the next proposal
next_proposal_index(state) ==
    [state EXCEPT !.transaction_index = @ + 1]

---------------------------------------------------------------------------
(* multisig_core: Proposal *)

\* fault: a new proposal without the approval of its proposer
Proposal_new_unapproved(index, proposer, multisig_create_key, call) ==
    [index |-> index, proposer |-> proposer,
     multisig_create_key |-> multisig_create_key,
     call |-> call,
     approved |-> <<>>, rejected |-> <<>>,
     status |-> "Active", config_action |-> NoAction]

Proposal_new(index, proposer, multisig_create_key, call) ==
    [index |-> index, proposer |-> proposer,
     multisig_create_key |-> multisig_create_key,
     call |-> call,
     approved |-> <<proposer>>, rejected |-> <<>>,
     status |-> "Active", config_action |-> NoAction]

Proposal_new_config(index, proposer, multisig_create_key, action) ==
    [index |-> index, proposer |-> proposer,
     multisig_create_key |-> multisig_create_key,
     call |-> NoCall,
     approved |-> <<proposer>>, rejected |-> <<>>,
     status |-> "Active", config_action |-> action]

\* fault: approve() that leaves an earlier rejection of the member in place
Proposal_approve_keeps_rejection(p, member) ==
    IF contains(p.approved, member)
    THEN [is_new |-> FALSE, proposal |-> p]
    ELSE [is_new |-> TRUE,
          proposal |-> [p EXCEPT !.approved = Append(p.approved, member)]]

\* fault: approve() that keeps the latest approval only
Proposal_approve_replaces(p, member) ==
    IF contains(p.approved, member)
    THEN [is_new |-> FALSE, proposal |-> p]
    ELSE [is_new |-> TRUE,
          proposal |-> [p EXCEPT !.rejected = retain_ne(@, member),
                                 !.approved = <<member>>]]

Proposal_approve(p, member) ==
    IF contains(p.approved, member)
    THEN [is_new |-> FALSE, proposal |-> p]
    ELSE [is_new |-> TRUE,
          proposal |-> [p EXCEPT !.rejected = retain_ne(@, member),
                                 !.approved = Append(p.approved, member)]]

\* fault: reject() that records the member again and reports a new vote
Proposal_reject_again(p, member) ==
    [is_new |-> TRUE,
     proposal |-> [p EXCEPT !.approved = retain_ne(@, member),
                            !.rejected = Append(p.rejected, member)]]

\* fault: reject() that makes the rejecting member the proposer
Proposal_reject_takes_over(p, member) ==
    IF contains(p.rejected, member)
    THEN [is_new |-> FALSE, proposal |-> p]
    ELSE [is_new |-> TRUE,
          proposal |-> [p EXCEPT !.approved = retain_ne(@, member),
                                 !.rejected = Append(p.rejected, member),
                                 !.proposer = member]]

Proposal_reject(p, member) ==
    IF contains(p.rejected, member)
    THEN [is_new |-> FALSE, proposal |-> p]
    ELSE [is_new |-> TRUE,
          proposal |-> [p EXCEPT !.approved = retain_ne(@, member),
                                 !.rejected = Append(p.rejected, member)]]

\* fault: threshold comparison off by one
has_threshold_off_by_one(p, threshold) == Len(p.approved) + 1 >= threshold

has_threshold(p, threshold) == Len(p.approved) >= threshold

\* member_count as usize - rejected.len() is an unsigned subtraction: with
\* more rejections than members it panics in a build with overflow checks
is_dead_underflows(p, member_count) == Len(p.rejected) > member_count

\* fault: is_dead with <= for <
is_dead_off_by_one(p, threshold, member_count) ==
    (member_count - Len(p.rejected)) <= threshold

\* without overflow checks the difference wraps to a value near 2^64, which
\* no u8 threshold exceeds
is_dead(p, threshold, member_count) ==
    IF is_dead_underflows(p, member_count)
    THEN FALSE
    ELSE (member_count - Len(p.rejected)) < threshold

---------------------------------------------------------------------------
(* multisig_core: PDA derivation helpers.  A seed and a create_key are     *)
(* sequences of 32 bytes.                                                  *)

SeedLen == 32

\* b"multisig_state__", b"multisig_prop___", b"multisig_vault__"
StateTag == <<109, 117, 108, 116, 105, 115, 105, 103, 95, 115, 116, 97, 116, 101, 95, 95>>
ProposalTag == <<109, 117, 108, 116, 105, 115, 105, 103, 95, 112, 114, 111, 112, 95, 95, 95>>
VaultTag == <<109, 117, 108, 116, 105, 115, 105, 103, 95, 118, 97, 117, 108, 116, 95, 95>>

\* a ^ b on u8
RECURSIVE xor(_, _)
xor(a, b) ==
    IF a = 0 THEN b
    ELSE IF b = 0 THEN a
    ELSE (((a % 2) + (b % 2)) % 2) + 2 * xor(a \div 2, b \div 2)

\* seed = [0u8; 32]; seed[i] = tag[i] for i < tag.len(); seed[i] ^= create_key[i]
tagged_seed(tag, create_key) ==
    [i \in 1..SeedLen |-> xor(IF i <= Len(tag) THEN tag[i] ELSE 0, create_key[i])]

\* u64::to_be_bytes, for the values below 2^32 the model uses: the four
\* high bytes are 0
to_be_bytes(n) ==
    [j \in 1..8 |-> IF j <= 4 THEN 0 ELSE (n \div (256 ^ (8 - j))) % 256]

multisig_state_pda_seed(create_key) == tagged_seed(StateTag, create_key)

\* fault: the proposal seed without the proposal index
proposal_pda_seed_without_index(create_key, proposal_index) ==
    tagged_seed(ProposalTag, create_key)

proposal_pda_seed(create_key, proposal_index) ==
    LET seed == tagged_seed(ProposalTag, create_key)
        idx_bytes == to_be_bytes(proposal_index)
    IN  [i \in 1..SeedLen |->
            IF i > 24 THEN xor(seed[i], idx_bytes[i - 24]) ELSE seed[i]]

vault_pda_seed(create_key) == tagged_seed(VaultTag, create_key)

---------------------------------------------------------------------------
(* Outcome of a handler.  pre and cur are [state, proposals]: the records  *)
(* the instruction was given, and the handler's working copies at the      *)
(* point it returns or panics.                                             *)

World(state, props) == [state |-> state, proposals |-> props]

\* fault: a failed assert! leaves the working copies behind as the records
Panic_keeps_partial(pre, cur) ==
    [ok |-> FALSE, state |-> cur.state, proposals |-> cur.proposals,
     chained_calls |-> <<>>]

\* assert! failed: the handler returns no post-state, the records are kept
Panic(pre, cur) ==
    [ok |-> FALSE, state |-> pre.state, proposals |-> pre.proposals,
     chained_calls |-> <<>>]

\* the handler serializes its working copies into the post-states
Returns(cur, chained_calls) ==
    [ok |-> TRUE, state |-> cur.state, proposals |-> cur.proposals,
     chained_calls |-> chained_calls]

\* the record held by the account passed as the proposal account
AccountRecords(props, ref) ==
    {p \in props : p.multisig_create_key = ref[1] /\ p.index = ref[2]}

\* state.get_proposal_mut(proposal_index): the proposal of this multisig
\* with that index
get_proposal(props, create_key, proposal_index) ==
    {p \in props : p.multisig_create_key = create_key /\ p.index = proposal_index}

\* fault: the proposals are kept after an execution
clear_all_proposals_keeps(props, create_key) == props

\* state.clear_all_proposals(): no proposal of this multisig is left
clear_all_proposals(props, create_key) ==
    {p \in props : p.multisig_create_key # create_key}

ReplaceProposal(props, old, new) == (props \ {old}) \cup {new}

---------------------------------------------------------------------------
(* create_multisig::handle *)

\* fault: CreateMultisig that does not look at the state account it is given
create_multisig_handle_overwrites(pre, create_key, threshold, members, member_accounts_ok) ==
    IF Len(members) = 0 THEN Panic(pre, pre)
    ELSE IF ~(threshold >= 1) THEN Panic(pre, pre)
    ELSE IF ~(threshold <= Len(members)) THEN Panic(pre, pre)
    ELSE IF ~(Len(members) <= MaxMembers) THEN Panic(pre, pre)
    ELSE IF ~member_accounts_ok THEN Panic(pre, pre)
    ELSE Returns(World(MultisigState_new(create_key, threshold, members),
                       pre.proposals), <<>>)

\* fault: CreateMultisig without the cap on the number of members
create_multisig_handle_uncapped(pre, create_key, threshold, members, member_accounts_ok) ==
    IF Len(members) = 0 THEN Panic(pre, pre)
    ELSE IF ~(threshold >= 1) THEN Panic(pre, pre)
    ELSE IF ~(threshold <= Len(members)) THEN Panic(pre, pre)
    ELSE IF pre.state.initialized THEN Panic(pre, pre)
    ELSE IF ~member_accounts_ok THEN Panic(pre, pre)
    ELSE Returns(World(MultisigState_new(create_key, threshold, members),
                       pre.proposals), <<>>)

create_multisig_handle(pre, create_key, threshold, members, member_accounts_ok) ==
    IF Len(members) = 0 THEN Panic(pre, pre)
    ELSE IF ~(threshold >= 1) THEN Panic(pre, pre)
    ELSE IF ~(threshold <= Len(members)) THEN Panic(pre, pre)
    ELSE IF ~(Len(members) <= MaxMembers) THEN Panic(pre, pre)
    ELSE IF pre.state.initialized THEN Panic(pre, pre)
    ELSE IF ~member_accounts_ok THEN Panic(pre, pre)
    ELSE Returns(World(MultisigState_new(create_key, threshold, members),
                       pre.proposals), <<>>)

---------------------------------------------------------------------------
(* propose::handle *)

\* fault: Propose that takes a proposal account already in use
propose_handle_reuses_account(pre, proposer_id, is_authorized, proposal_account, call) ==
    IF ~is_authorized THEN Panic(pre, pre)
    ELSE IF ~pre.state.initialized THEN Panic(pre, pre)
    ELSE IF ~is_member(pre.state, proposer_id) THEN Panic(pre, pre)
    ELSE
        LET state == next_proposal_index(pre.state)
            proposal == Proposal_new(state.transaction_index, proposer_id,
                                     state.create_key, call)
        IN  Returns(World(state, pre.proposals \cup {proposal}), <<>>)

\* fault: Propose that sends the call on at once
propose_handle_emits(pre, proposer_id, is_authorized, proposal_account, call) ==
    IF ~is_authorized THEN Panic(pre, pre)
    ELSE IF AccountRecords(pre.proposals, proposal_account) # {} THEN Panic(pre, pre)
    ELSE IF ~pre.state.initialized THEN Panic(pre, pre)
    ELSE IF ~is_member(pre.state, proposer_id) THEN Panic(pre, pre)
    ELSE
        LET state == next_proposal_index(pre.state)
            proposal == Proposal_new(state.transaction_index, proposer_id,
                                     state.create_key, call)
        IN  Returns(World(state, pre.proposals \cup {proposal}), <<call>>)

propose_handle(pre, proposer_id, is_authorized, proposal_account, call) ==
    IF ~is_authorized THEN Panic(pre, pre)
    ELSE IF AccountRecords(pre.proposals, proposal_account) # {} THEN Panic(pre, pre)
    ELSE IF ~pre.state.initialized THEN Panic(pre, pre)
    ELSE IF ~is_member(pre.state, proposer_id) THEN Panic(pre, pre)
    ELSE
        LET state == next_proposal_index(pre.state)
            proposal == Proposal_new(state.transaction_index, proposer_id,
                                     state.create_key, call)
        IN  Returns(World(state, pre.proposals \cup {proposal}), <<>>)

---------------------------------------------------------------------------
(* propose_config::handle *)

\* fault: the threshold is checked against member_count when it is proposed
propose_config_valid_eager(state, action) ==
    CASE action.type = "AddMember" ->
            ~is_member(state, action.member) /\ state.member_count < MaxMembers
      [] action.type = "RemoveMember" -> is_member(state, action.member)
      [] action.type = "ChangeThreshold" ->
            action.new_threshold >= 1 /\ action.new_threshold <= state.member_count

\* the checks made on the action when it is proposed
propose_config_valid(state, action) ==
    CASE action.type = "AddMember" ->
            ~is_member(state, action.member) /\ state.member_count < MaxMembers
      [] action.type = "RemoveMember" -> is_member(state, action.member)
      [] action.type = "ChangeThreshold" -> action.new_threshold >= 1

propose_config_handle(pre, proposer_id, is_authorized, proposal_account, action) ==
    IF ~is_authorized THEN Panic(pre, pre)
    ELSE IF AccountRecords(pre.proposals, proposal_account) # {} THEN Panic(pre, pre)
    ELSE IF ~pre.state.initialized THEN Panic(pre, pre)
    ELSE IF ~is_member(pre.state, proposer_id) THEN Panic(pre, pre)
    ELSE IF ~propose_config_valid(pre.state, action) THEN Panic(pre, pre)
    ELSE
        LET state == next_proposal_index(pre.state)
            proposal == Proposal_new_config(state.transaction_index, proposer_id,
                                            state.create_key, action)
        IN  Returns(World(state, pre.proposals \cup {proposal}), <<>>)

---------------------------------------------------------------------------
(* approve::handle; its proposal_index argument is not read *)

approve_handle(pre, approver_id, is_authorized, proposal_account, proposal_index) ==
    IF ~is_authorized THEN Panic(pre, pre)
    ELSE IF ~pre.state.initialized THEN Panic(pre, pre)
    ELSE IF ~is_member(pre.state, approver_id) THEN Panic(pre, pre)
    ELSE IF AccountRecords(pre.proposals, proposal_account) = {} THEN Panic(pre, pre)
    ELSE
        LET proposal == CHOOSE p \in AccountRecords(pre.proposals, proposal_account) : TRUE
            voted == Proposal_approve(proposal, approver_id)
            cur == World(pre.state,
                         ReplaceProposal(pre.proposals, proposal, voted.proposal))
        IN  IF proposal.multisig_create_key # pre.state.create_key THEN Panic(pre, pre)
            ELSE IF proposal.status # "Active" THEN Panic(pre, pre)
            ELSE IF ~voted.is_new THEN Panic(pre, cur)
            ELSE Returns(cur, <<>>)

---------------------------------------------------------------------------
(* reject::handle *)

reject_handle(pre, rejector_id, is_authorized, proposal_index, overflow_checks) ==
    IF ~is_authorized THEN Panic(pre, pre)
    ELSE IF ~pre.state.initialized THEN Panic(pre, pre)
    ELSE IF ~is_member(pre.state, rejector_id) THEN Panic(pre, pre)
    ELSE IF get_proposal(pre.proposals, pre.state.create_key, proposal_index) = {}
    THEN Panic(pre, pre)
    ELSE
        LET threshold == pre.state.threshold
            member_count == pre.state.member_count
            proposal == CHOOSE p \in get_proposal(pre.proposals, pre.state.create_key,
                                                  proposal_index) : TRUE
            voted == Proposal_reject(proposal, rejector_id)
            marked == IF is_dead(voted.proposal, threshold, member_count)
                      THEN [voted.proposal EXCEPT !.status = "Rejected"]
                      ELSE voted.proposal
            cur == World(pre.state, ReplaceProposal(pre.proposals, proposal, voted.proposal))
        IN  IF proposal.status # "Active" THEN Panic(pre, pre)
            ELSE IF ~voted.is_new THEN Panic(pre, cur)
            ELSE IF overflow_checks /\ is_dead_underflows(voted.proposal, member_count)
            THEN Panic(pre, cur)
            ELSE Returns(World(pre.state,
                               ReplaceProposal(pre.proposals, proposal, marked)), <<>>)

---------------------------------------------------------------------------
(* execute::handle *)

\* proposal.action: the config action, or the transfer the proposal describes
proposal_action(p) ==
    IF p.config_action.type = "None" THEN "Transfer" ELSE p.config_action.type

\* each arm gives [ok, state]: whether its asserts passed, and the state copy
\* as the arm left it
execute_transfer(state, balance_ok) ==
    [ok |-> balance_ok, state |-> state]

execute_add_member(state, new_member) ==
    IF is_member(state, new_member) THEN [ok |-> FALSE, state |-> state]
    ELSE IF ~(Len(state.members) < MaxMembers) THEN [ok |-> FALSE, state |-> state]
    ELSE LET members == Append(state.members, new_member)
         IN  [ok |-> TRUE,
              state |-> [state EXCEPT !.members = members,
                                      !.member_count = Len(members)]]

\* fault: RemoveMember arm that compares the threshold with the length
\* before the removal
execute_remove_member_checks_before(state, member_to_remove) ==
    IF ~is_member(state, member_to_remove) THEN [ok |-> FALSE, state |-> state]
    ELSE LET members == retain_ne(state.members, member_to_remove)
         IN  [ok |-> state.threshold <= Len(state.members),
              state |-> [state EXCEPT !.members = members,
                                      !.member_count = Len(members)]]

\* fault: RemoveMember arm without the assert on the threshold
execute_remove_member_unchecked(state, member_to_remove) ==
    IF ~is_member(state, member_to_remove) THEN [ok |-> FALSE, state |-> state]
    ELSE LET members == retain_ne(state.members, member_to_remove)
         IN  [ok |-> TRUE,
              state |-> [state EXCEPT !.members = members,
                                      !.member_count = Len(members)]]

\* fault: RemoveMember arm that counts one member less instead of
\* taking the new length
execute_remove_member_counts_one(state, member_to_remove) ==
    IF ~is_member(state, member_to_remove) THEN [ok |-> FALSE, state |-> state]
    ELSE LET members == retain_ne(state.members, member_to_remove)
             removed == [state EXCEPT !.members = members,
                                      !.member_count = state.member_count - 1]
         IN  [ok |-> removed.threshold <= Len(removed.members), state |-> removed]

execute_remove_member(state, member_to_remove) ==
    IF ~is_member(state, member_to_remove) THEN [ok |-> FALSE, state |-> state]
    ELSE LET members == retain_ne(state.members, member_to_remove)
             removed == [state EXCEPT !.members = members,
                                      !.member_count = Len(members)]
         IN  [ok |-> removed.threshold <= Len(removed.members), state |-> removed]

\* fault: ChangeThreshold arm without the assert on the member count
execute_change_threshold_unbounded(state, new_threshold) ==
    IF ~(new_threshold >= 1) THEN [ok |-> FALSE, state |-> state]
    ELSE [ok |-> TRUE, state |-> [state EXCEPT !.threshold = new_threshold]]

execute_change_threshold(state, new_threshold) ==
    IF ~(new_threshold >= 1) THEN [ok |-> FALSE, state |-> state]
    ELSE IF ~(new_threshold <= Len(state.members)) THEN [ok |-> FALSE, state |-> state]
    ELSE [ok |-> TRUE, state |-> [state EXCEPT !.threshold = new_threshold]]

execute_action(state, p, balance_ok) ==
    CASE proposal_action(p) = "Transfer" -> execute_transfer(state, balance_ok)
      [] proposal_action(p) = "AddMember" ->
            execute_add_member(state, p.config_action.member)
      [] proposal_action(p) = "RemoveMember" ->
            execute_remove_member(state, p.config_action.member)
      [] proposal_action(p) = "ChangeThreshold" ->
            execute_change_threshold(state, p.config_action.new_threshold)

\* fault: Execute that adds the member of an AddMember proposal without
\* looking for it among the members, and keeps the other proposals
execute_handle_appends(pre, executor_id, is_authorized, proposal_index, balance_ok) ==
    IF ~is_authorized THEN Panic(pre, pre)
    ELSE IF ~pre.state.initialized THEN Panic(pre, pre)
    ELSE IF ~is_member(pre.state, executor_id) THEN Panic(pre, pre)
    ELSE IF get_proposal(pre.proposals, pre.state.create_key, proposal_index) = {}
    THEN Panic(pre, pre)
    ELSE
        LET threshold == pre.state.threshold
            proposal == CHOOSE p \in get_proposal(pre.proposals, pre.state.create_key,
                                                  proposal_index) : TRUE
            executed == [proposal EXCEPT !.status = "Executed"]
            marked == ReplaceProposal(pre.proposals, proposal, executed)
            members == Append(pre.state.members, proposal.config_action.member)
            arm == IF proposal_action(proposal) = "AddMember"
                   THEN [ok |-> TRUE,
                         state |-> [pre.state EXCEPT !.members = members,
                                                     !.member_count = Len(members)]]
                   ELSE execute_action(pre.state, proposal, balance_ok)
        IN  IF proposal.status # "Active" THEN Panic(pre, pre)
            ELSE IF ~has_threshold(proposal, threshold) THEN Panic(pre, pre)
            ELSE IF ~arm.ok THEN Panic(pre, World(arm.state, marked))
            ELSE Returns(World(arm.state, marked), <<>>)

execute_handle(pre, executor_id, is_authorized, proposal_index, balance_ok) ==
    IF ~is_authorized THEN Panic(pre, pre)
    ELSE IF ~pre.state.initialized THEN Panic(pre, pre)
    ELSE IF ~is_member(pre.state, executor_id) THEN Panic(pre, pre)
    ELSE IF get_proposal(pre.proposals, pre.state.create_key, proposal_index) = {}
    THEN Panic(pre, pre)
    ELSE
        LET threshold == pre.state.threshold
            proposal == CHOOSE p \in get_proposal(pre.proposals, pre.state.create_key,
                                                  proposal_index) : TRUE
            executed == [proposal EXCEPT !.status = "Executed"]
            marked == ReplaceProposal(pre.proposals, proposal, executed)
            arm == execute_action(pre.state, proposal, balance_ok)
        IN  IF proposal.status # "Active" THEN Panic(pre, pre)
            ELSE IF ~has_threshold(proposal, threshold) THEN Panic(pre, pre)
            ELSE IF ~arm.ok THEN Panic(pre, World(arm.state, marked))
            ELSE Returns(World(arm.state,
                               clear_all_proposals(marked, arm.state.create_key)), <<>>)

---------------------------------------------------------------------------
(* treasury_core: MultisigState of the treasury program.  The program has  *)
(* no proposals: each instruction carries its signer accounts.             *)

TreasuryDefault ==
    [initialized |-> FALSE, threshold |-> 0, member_count |-> 0,
     members |-> <<>>, nonce |-> 0]

treasury_MultisigState_new(threshold, members) ==
    [initialized |-> TRUE, threshold |-> threshold, member_count |-> Len(members),
     members |-> members, nonce |-> 0]

treasury_is_member(state, pk) == contains(state.members, pk)

\* signers.iter().filter(|s| self.is_member(s)).count()
count_valid_signers(state, signers) ==
    Len(SelectSeq(signers, LAMBDA s : treasury_is_member(state, s)))

\* the state account and the vault the treasury instructions are given
TreasuryAccounts(balance) == [state |-> TreasuryDefault, vault_balance |-> balance]

SignerAccount(id, is_authorized) == [account_id |-> id, is_authorized |-> is_authorized]

\* accounts[n..].iter().filter(|acc| acc.is_authorized).map(key bytes)
authorized_signers(signer_accounts) ==
    LET authorized == SelectSeq(signer_accounts, LAMBDA acc : acc.is_authorized)
    IN  [i \in 1..Len(authorized) |-> authorized[i].account_id]

\* a treasury handler gives [ok, state, vault_balance, chained_calls]
TreasuryPanic(pre) ==
    [ok |-> FALSE, state |-> pre.state, vault_balance |-> pre.vault_balance,
     chained_calls |-> <<>>]

TreasuryReturns(state, vault_balance, chained_calls) ==
    [ok |-> TRUE, state |-> state, vault_balance |-> vault_balance,
     chained_calls |-> chained_calls]

\* the placeholder call of Execute: zeroed program id, nothing else
PlaceholderCall ==
    [program_id |-> "zero", instruction_data |-> <<>>, pre_states |-> <<>>,
     pda_seeds |-> <<>>]

(* treasury_program: create_multisig::handle; accounts_len accounts are passed *)

treasury_create_multisig_handle(pre, threshold, members, accounts_len) ==
    IF Len(members) = 0 THEN TreasuryPanic(pre)
    ELSE IF ~(threshold >= 1) THEN TreasuryPanic(pre)
    ELSE IF ~(threshold <= Len(members)) THEN TreasuryPanic(pre)
    ELSE IF ~(Len(members) <= MaxMembers) THEN TreasuryPanic(pre)
    ELSE IF accounts_len = 0 THEN TreasuryPanic(pre)
    ELSE TreasuryReturns(treasury_MultisigState_new(threshold, members),
                         pre.vault_balance, <<>>)

(* treasury_program: execute::handle; the signers are accounts[2..] *)

treasury_execute_handle(pre, signer_accounts, amount) ==
    LET accounts == <<"multisig_state", "vault">> \o signer_accounts
        signers == authorized_signers(signer_accounts)
        state == pre.state
    IN  IF ~(Len(accounts) >= 2) THEN TreasuryPanic(pre)
        ELSE IF signers = <<>> THEN TreasuryPanic(pre)
        ELSE IF ~state.initialized THEN TreasuryPanic(pre)
        ELSE IF ~(count_valid_signers(state, signers) >= state.threshold)
        THEN TreasuryPanic(pre)
        ELSE IF ~(pre.vault_balance >= amount) THEN TreasuryPanic(pre)
        ELSE TreasuryReturns([state EXCEPT !.nonce = @ + 1],
                             pre.vault_balance - amount, <<PlaceholderCall>>)

(* treasury_program: add_member::handle; the signers are accounts[1..] *)

treasury_add_member_handle(pre, signer_accounts, new_member) ==
    LET accounts == <<"multisig_state">> \o signer_accounts
        signers == authorized_signers(signer_accounts)
        state == pre.state
    IN  IF ~(Len(accounts) >= 2) THEN TreasuryPanic(pre)
        ELSE IF ~state.initialized THEN TreasuryPanic(pre)
        ELSE IF ~(count_valid_signers(state, signers) >= state.threshold)
        THEN TreasuryPanic(pre)
        ELSE IF treasury_is_member(state, new_member) THEN TreasuryPanic(pre)
        ELSE IF ~(state.member_count < MaxMembers) THEN TreasuryPanic(pre)
        ELSE TreasuryReturns([state EXCEPT !.members = Append(@, new_member),
                                           !.member_count = @ + 1,
                                           !.nonce = @ + 1],
                             pre.vault_balance, <<>>)

(* treasury_program: remove_member::handle *)

\* members.iter().position(|m| *m == *member_to_remove): 0 for None
position(seq, x) ==
    IF contains(seq, x)
    THEN CHOOSE i \in 1..Len(seq) : seq[i] = x /\ \A j \in 1..(i - 1) : seq[j] # x
    ELSE 0

\* Vec::remove(pos)
remove_at(seq, pos) == SubSeq(seq, 1, pos - 1) \o SubSeq(seq, pos + 1, Len(seq))

treasury_remove_member_handle(pre, signer_accounts, member_to_remove) ==
    LET accounts == <<"multisig_state">> \o signer_accounts
        signers == authorized_signers(signer_accounts)
        state == pre.state
        pos == position(state.members, member_to_remove)
        removed == [state EXCEPT !.members = remove_at(@, pos),
                                 !.member_count = @ - 1,
                                 !.nonce = @ + 1]
    IN  IF ~(Len(accounts) >= 2) THEN TreasuryPanic(pre)
        ELSE IF ~state.initialized THEN TreasuryPanic(pre)
        ELSE IF ~(count_valid_signers(state, signers) >= state.threshold)
        THEN TreasuryPanic(pre)
        ELSE IF pos = 0 THEN TreasuryPanic(pre)
        ELSE IF ~(removed.threshold <= removed.member_count) THEN TreasuryPanic(pre)
        ELSE TreasuryReturns(removed, pre.vault_balance, <<>>)

(* treasury_program: change_threshold::handle *)

treasury_change_threshold_handle(pre, signer_accounts, new_threshold) ==
    LET accounts == <<"multisig_state">> \o signer_accounts
        signers == authorized_signers(signer_accounts)
        state == pre.state
    IN  IF ~(Len(accounts) >= 2) THEN TreasuryPanic(pre)
        ELSE IF ~state.initialized THEN TreasuryPanic(pre)
        ELSE IF ~(count_valid_signers(state, signers) >= state.threshold)
        THEN TreasuryPanic(pre)
        ELSE IF ~(new_threshold >= 1) THEN TreasuryPanic(pre)
        ELSE IF ~(new_threshold <= state.member_count) THEN TreasuryPanic(pre)
        ELSE TreasuryReturns([state EXCEPT !.threshold = new_threshold,
                                           !.nonce = @ + 1],
                             pre.vault_balance, <<>>)

---------------------------------------------------------------------------
(* lez-multisig-ffi: the two list_proposals queries.  Each reads the       *)
(* MultisigState, walks a range of indices and fetches the account at      *)
(* compute_proposal_pda(program_id, create_key, index).                    *)

\* multisig.rs: for idx in 1..=state.transaction_index
list_proposals_async_indices(state) == 1..state.transaction_index

\* multisig.rs list_proposals_async: an entry per index, a stub for an
\* index whose account holds no proposal
list_proposals_async(state, props) ==
    IF ~state.initialized THEN [success |-> TRUE, proposals |-> <<>>]
    ELSE [success |-> TRUE,
          proposals |->
            [idx \in list_proposals_async_indices(state) |->
                LET fetched == AccountRecords(props, <<state.create_key, idx>>)
                IN  IF fetched = {}
                    THEN [index |-> idx, status |-> "Missing"]
                    ELSE LET p == CHOOSE q \in fetched : TRUE
                         IN  [index |-> p.index, proposer |-> p.proposer,
                              multisig_create_key |-> p.multisig_create_key,
                              approved_count |-> Len(p.approved),
                              rejected_count |-> Len(p.rejected),
                              status |-> p.status]]]

\* lib.rs: for i in 0..state.transaction_index
multisig_queries_list_proposals_indices(state) == 0..(state.transaction_index - 1)

\* lib.rs multisig_queries::list_proposals, behind the exported
\* lez_multisig_list_proposals: an entry per index whose account holds a
\* proposal
multisig_queries_list_proposals(state, props) ==
    IF ~state.initialized THEN [success |-> FALSE, proposals |-> <<>>]
    ELSE LET walked == [j \in 1..state.transaction_index |-> j - 1]
             found == SelectSeq(walked, LAMBDA i :
                          AccountRecords(props, <<state.create_key, i>>) # {})
         IN  [success |-> TRUE,
              proposals |->
                [j \in 1..Len(found) |->
                    LET p == CHOOSE q \in AccountRecords(props,
                                              <<state.create_key, found[j]>>) : TRUE
                    IN  [index |-> p.index, status |-> p.status,
                         proposer |-> p.proposer,
                         approvals |-> Len(p.approved),
                         rejections |-> Len(p.rejected),
                         threshold |-> state.threshold]]]

---------------------------------------------------------------------------
(* The reject and execute instructions put the proposal account, and the   *)
(* target accounts of an Execute, behind the state and the signer in the   *)
(* account list and pass the list to the handler.  The handlers read       *)
(* accounts[0] and accounts[1] only.                                       *)

reject(pre, rejector_id, is_authorized, proposal_account, proposal_index, overflow_checks) ==
    LET accounts == <<pre.state, rejector_id, proposal_account>>
    IN  IF ~(Len(accounts) >= 2) THEN Panic(pre, pre)
        ELSE reject_handle(pre, accounts[2], is_authorized, proposal_index,
                           overflow_checks)

execute(pre, executor_id, is_authorized, proposal_account, target_accounts, proposal_index, balance_ok) ==
    LET accounts == <<pre.state, executor_id, proposal_account>> \o target_accounts
    IN  IF ~(Len(accounts) >= 2) THEN Panic(pre, pre)
        ELSE execute_handle(pre, accounts[2], is_authorized, proposal_index,
                            balance_ok)

---------------------------------------------------------------------------
(* The instructions, as multisig_program::process dispatches them.  An     *)
(* instruction whose handler panics changes nothing, last included.        *)

NoProposal == Proposal_new(0, "-", "-", NoCall)

\* proposal: the record the instruction acted on, as it was before (for a
\* Propose, the record it created)
Instr(op, key, caller, proposal) ==
    [op |-> op, key |-> key, caller |-> caller, proposal |-> proposal]

ProposalsOf(k) == {p \in proposals : p.multisig_create_key = k}

TheProposal(set) == IF set = {} THEN NoProposal ELSE CHOOSE p \in set : TRUE

\* a derivation: the inputs and the three seeds derived from them
Derivation(create_key, proposal_index) ==
    [create_key |-> create_key, proposal_index |-> proposal_index,
     state |-> multisig_state_pda_seed(create_key),
     proposal |-> proposal_pda_seed(create_key, proposal_index),
     vault |-> vault_pda_seed(create_key)]

NoDerivation ==
    [create_key |-> <<>>, proposal_index |-> 0,
     state |-> <<>>, proposal |-> <<>>, vault |-> <<>>]

Init ==
    /\ multisig = [k \in Keys |-> DefaultAccount]
    /\ proposals = {}
    /\ last = Instr("None", "-", "-", NoProposal)
    /\ derived = <<NoDerivation, NoDerivation>>
    /\ treasury = TreasuryAccounts(0)

(* Each action commits the post-states its handler returns.  room is the   *)
(* bound a specification puts on the proposals that exist together.        *)

CreateMultisig(k, threshold, members, member_accounts_ok) ==
    LET res == create_multisig_handle(World(multisig[k], proposals), k, threshold,
                                      members, member_accounts_ok)
    IN  /\ multisig' = [multisig EXCEPT ![k] = res.state]
        /\ proposals' = res.proposals
        /\ last' = IF res.ok THEN Instr("CreateMultisig", k, "-", NoProposal) ELSE last
        /\ UNCHANGED <<derived, treasury>>

Propose(k, caller, auth, account, call, room) ==
    /\ room
    /\ multisig[k].transaction_index < MaxProposals
    /\ LET res == propose_handle(World(multisig[k], proposals), caller, auth,
                                 account, call)
           created == get_proposal(res.proposals, k, res.state.transaction_index)
       IN  /\ multisig' = [multisig EXCEPT ![k] = res.state]
           /\ proposals' = res.proposals
           /\ last' = IF res.ok
                      THEN Instr("Propose", k, caller, TheProposal(created))
                      ELSE last
           /\ UNCHANGED <<derived, treasury>>

ProposeConfig(k, caller, auth, account, action, room) ==
    /\ room
    /\ multisig[k].transaction_index < MaxProposals
    /\ LET res == propose_config_handle(World(multisig[k], proposals), caller, auth,
                                        account, action)
           created == get_proposal(res.proposals, k, res.state.transaction_index)
       IN  /\ multisig' = [multisig EXCEPT ![k] = res.state]
           /\ proposals' = res.proposals
           /\ last' = IF res.ok
                      THEN Instr("ProposeConfig", k, caller, TheProposal(created))
                      ELSE last
           /\ UNCHANGED <<derived, treasury>>

Approve(k, caller, auth, account, proposal_index) ==
    LET res == approve_handle(World(multisig[k], proposals), caller, auth,
                              account, proposal_index)
        held == AccountRecords(proposals, account)
    IN  /\ multisig' = [multisig EXCEPT ![k] = res.state]
        /\ proposals' = res.proposals
        /\ last' = IF res.ok THEN Instr("Approve", k, caller, TheProposal(held)) ELSE last
        /\ UNCHANGED <<derived, treasury>>

Reject(k, caller, auth, account, proposal_index, overflow_checks) ==
    LET res == reject(World(multisig[k], proposals), caller, auth, account,
                      proposal_index, overflow_checks)
        found == get_proposal(proposals, k, proposal_index)
    IN  /\ multisig' = [multisig EXCEPT ![k] = res.state]
        /\ proposals' = res.proposals
        /\ last' = IF res.ok THEN Instr("Reject", k, caller, TheProposal(found)) ELSE last
        /\ UNCHANGED <<derived, treasury>>

Execute(k, caller, auth, account, target_accounts, proposal_index, balance_ok) ==
    LET res == execute(World(multisig[k], proposals), caller, auth, account,
                       target_accounts, proposal_index, balance_ok)
        found == get_proposal(proposals, k, proposal_index)
    IN  /\ multisig' = [multisig EXCEPT ![k] = res.state]
        /\ proposals' = res.proposals
        /\ last' = IF res.ok THEN Instr("Execute", k, caller, TheProposal(found)) ELSE last
        /\ UNCHANGED <<derived, treasury>>

\* the instructions that create no proposal; Reject and Execute are given
\* the proposal account derived from their create_key and proposal_index,
\* Execute a list of target accounts out of target_lists
Others(target_lists) ==
    \/ \E k \in Keys, c \in Ids, a \in BOOLEAN, r \in AccountRefs :
            \E i \in {0, r[2]} : Approve(k, c, a, r, i)
    \/ \E k \in Keys, c \in Ids, a \in BOOLEAN, i \in ProposalIndexArgs, o \in BOOLEAN :
            Reject(k, c, a, <<k, i>>, i, o)
    \/ \E k \in Keys, c \in Ids, a \in BOOLEAN, i \in ProposalIndexArgs, b \in BOOLEAN :
            \E ta \in target_lists : Execute(k, c, a, <<k, i>>, ta, i, b)

(* Spec: the proposals of a multisig are made one at a time, the next one  *)
(* once no proposal record of the multisig exists.                         *)

Next ==
    \/ \E k \in Keys, t \in ThresholdArgs, ms \in CreateMemberLists, f \in BOOLEAN :
            CreateMultisig(k, t, ms, f)
    \/ \E k \in Keys, c \in Ids, a \in BOOLEAN, r \in AccountRefs, d \in CallDescriptors :
            Propose(k, c, a, r, d, ProposalsOf(k) = {})
    \/ \E k \in Keys, c \in Ids, a \in BOOLEAN, r \in AccountRefs, x \in ConfigActions :
            ProposeConfig(k, c, a, r, x, ProposalsOf(k) = {})
    \/ Others(TargetAccountLists)

Spec == Init /\ [][Next]_vars

(* SpecPair: up to MaxLive proposal records of a multisig exist together,  *)
(* in multisigs of at most PairMembers members; an Execute is given the    *)
(* two target accounts the call descriptor counts.                         *)

PairMemberLists == {ms \in CreateMemberLists : Len(ms) <= PairMembers}

CanProposePair(k) ==
    \/ ProposalsOf(k) = {}
    \/ /\ Cardinality(ProposalsOf(k)) < MaxLive
       /\ multisig[k].member_count <= PairMembers

NextPair ==
    \/ \E k \in Keys, t \in ThresholdArgs, ms \in PairMemberLists, f \in BOOLEAN :
            CreateMultisig(k, t, ms, f)
    \/ \E k \in Keys, c \in Ids, a \in BOOLEAN, r \in AccountRefs, d \in CallDescriptors :
            Propose(k, c, a, r, d, CanProposePair(k))
    \/ \E k \in Keys, c \in Ids, a \in BOOLEAN, r \in AccountRefs, x \in ConfigActions :
            ProposeConfig(k, c, a, r, x, CanProposePair(k))
    \/ Others({<<"src", "dst">>})

SpecPair == Init /\ [][NextPair]_vars

(* SpecTwo: two multisigs, of one or two members and threshold 1, each     *)
(* with one delegated-call proposal at a time; Approve, Reject and Execute *)
(* are given any proposal account, the other multisig's included.          *)

KeysTwo == {"k1", "k2"}

TwoIds == {"A", "B"}

TwoMemberLists == { <<"A">>, <<"A", "B">> }

AccountRefsTwo == KeysTwo \X (0..MaxProposals)

InitTwo ==
    /\ multisig = [k \in KeysTwo |-> DefaultAccount]
    /\ proposals = {}
    /\ last = Instr("None", "-", "-", NoProposal)
    /\ derived = <<NoDerivation, NoDerivation>>
    /\ treasury = TreasuryAccounts(0)

NextTwo ==
    \/ \E k \in KeysTwo, ms \in TwoMemberLists :
            CreateMultisig(k, 1, ms, TRUE)
    \/ \E k \in KeysTwo, c \in TwoIds, r \in AccountRefsTwo, d \in CallDescriptors :
            Propose(k, c, TRUE, r, d, ProposalsOf(k) = {})
    \/ \E k \in KeysTwo, c \in TwoIds, r \in AccountRefsTwo :
            Approve(k, c, TRUE, r, r[2])
    \/ \E k \in KeysTwo, c \in TwoIds, r \in AccountRefsTwo, i \in ProposalIndexArgs :
            Reject(k, c, TRUE, r, i, TRUE)
    \/ \E k \in KeysTwo, c \in TwoIds, r \in AccountRefsTwo, i \in ProposalIndexArgs :
            Execute(k, c, TRUE, r, <<"src", "dst">>, i, TRUE)

SpecTwo == InitTwo /\ [][NextTwo]_vars

(* SpecSeeds: a client derives the seeds of a create_key and a proposal    *)
(* index, one derivation after another.  The create_keys offered are the   *)
(* keys that agree with the zero key except in the bytes where two tags    *)
(* differ and in the last byte, where the proposal index is mixed in, and  *)
(* the key of 32 bytes 0xFF.                                               *)

Padded(tag) == [i \in 1..SeedLen |-> IF i <= Len(tag) THEN tag[i] ELSE 0]

Tags == {StateTag, ProposalTag, VaultTag}

TagDifferences ==
    { [i \in 1..SeedLen |-> xor(Padded(s)[i], Padded(t)[i])] : s \in Tags, t \in Tags }

SeedKeys ==
    { [d EXCEPT ![SeedLen] = e] : d \in TagDifferences, e \in 0..MaxSeedIndex }
        \cup { [i \in 1..SeedLen |-> 255] }

SeedIndices == 0..MaxSeedIndex

DeriveSeeds(create_key, proposal_index) ==
    /\ derived' = <<derived[2], Derivation(create_key, proposal_index)>>
    /\ UNCHANGED <<multisig, proposals, last, treasury>>

NextSeeds ==
    \E create_key \in SeedKeys, proposal_index \in SeedIndices :
        DeriveSeeds(create_key, proposal_index)

SpecSeeds == Init /\ [][NextSeeds]_vars

---------------------------------------------------------------------------
(* SpecTreasury: the instructions of treasury_program::process on the      *)
(* treasury's MultisigState account and vault.  The vault is an account    *)
(* funded from outside the program; it starts with any balance.            *)

TreasuryMemberLists ==
    { <<>>, <<"A">>, <<"A", "A">>, <<"A", "B">>, <<"A", "B", "C">>, LongList(11) }

\* the signer accounts: every identity authorized, and A not authorized
SignerAccounts ==
    {SignerAccount(id, TRUE) : id \in Ids} \cup {SignerAccount("A", FALSE)}

SignerAccountLists ==
    UNION {[1..n -> SignerAccounts] : n \in 0..MaxSigners}

Amounts == 0..MaxVaultBalance

InitTreasury ==
    /\ multisig = [k \in Keys |-> DefaultAccount]
    /\ proposals = {}
    /\ last = Instr("None", "-", "-", NoProposal)
    /\ derived = <<NoDerivation, NoDerivation>>
    /\ \E balance \in Amounts : treasury = TreasuryAccounts(balance)

(* Each action commits the post-states its handler returns. *)

TreasuryCreateMultisig(threshold, members, accounts_len) ==
    LET res == treasury_create_multisig_handle(treasury, threshold, members,
                                               accounts_len)
    IN  /\ treasury' = [state |-> res.state, vault_balance |-> res.vault_balance]
        /\ UNCHANGED <<multisig, proposals, last, derived>>

TreasuryExecute(signer_accounts, amount) ==
    /\ treasury.state.nonce < MaxNonce
    /\ LET res == treasury_execute_handle(treasury, signer_accounts, amount)
       IN  /\ treasury' = [state |-> res.state, vault_balance |-> res.vault_balance]
           /\ UNCHANGED <<multisig, proposals, last, derived>>

TreasuryAddMember(signer_accounts, new_member) ==
    /\ treasury.state.nonce < MaxNonce
    /\ LET res == treasury_add_member_handle(treasury, signer_accounts, new_member)
       IN  /\ treasury' = [state |-> res.state, vault_balance |-> res.vault_balance]
           /\ UNCHANGED <<multisig, proposals, last, derived>>

TreasuryRemoveMember(signer_accounts, member_to_remove) ==
    /\ treasury.state.nonce < MaxNonce
    /\ LET res == treasury_remove_member_handle(treasury, signer_accounts,
                                                member_to_remove)
       IN  /\ treasury' = [state |-> res.state, vault_balance |-> res.vault_balance]
           /\ UNCHANGED <<multisig, proposals, last, derived>>

TreasuryChangeThreshold(signer_accounts, new_threshold) ==
    /\ treasury.state.nonce < MaxNonce
    /\ LET res == treasury_change_threshold_handle(treasury, signer_accounts,
                                                   new_threshold)
       IN  /\ treasury' = [state |-> res.state, vault_balance |-> res.vault_balance]
           /\ UNCHANGED <<multisig, proposals, last, derived>>

NextTreasury ==
    \/ \E t \in ThresholdArgs, ms \in TreasuryMemberLists, n \in 0..2 :
            TreasuryCreateMultisig(t, ms, n)
    \/ \E sa \in SignerAccountLists, amount \in Amounts : TreasuryExecute(sa, amount)
    \/ \E sa \in SignerAccountLists, m \in Ids : TreasuryAddMember(sa, m)
    \/ \E sa \in SignerAccountLists, m \in Ids : TreasuryRemoveMember(sa, m)
    \/ \E sa \in SignerAccountLists, t \in ThresholdArgs : TreasuryChangeThreshold(sa, t)

SpecTreasury == InitTreasury /\ [][NextTreasury]_vars

---------------------------------------------------------------------------
(* Properties.  A property about what a handler does on some input is      *)
(* stated over every reachable state and every input of the handler.       *)

Range(seq) == {seq[j] : j \in 1..Len(seq)}

NoDuplicates(seq) == \A i, j \in 1..Len(seq) : seq[i] = seq[j] => i = j

\* the records an instruction on multisig k is given
Pre(k) == World(multisig[k], proposals)

SameProposal(p, q) ==
    p.multisig_create_key = q.multisig_create_key /\ p.index = q.index

\* the approvers of p that are members of the MultisigState
LiveApprovals(state, p) == {m \in Range(p.approved) : m \in Range(state.members)}

Terminal(p) == p.status \in {"Executed", "Rejected"}

\* C1: every MultisigState that was created satisfies
\* 1 <= threshold <= member_count <= 10, whatever instructions followed.
C1_ThresholdWithinMembers ==
    \A k \in Keys :
        multisig[k].initialized =>
            /\ 1 <= multisig[k].threshold
            /\ multisig[k].threshold <= multisig[k].member_count
            /\ multisig[k].member_count <= MaxMembers

\* a RemoveMember was executed and left exactly threshold members
C1_Witness ==
    /\ last.op = "Execute"
    /\ last.proposal.config_action.type = "RemoveMember"
    /\ multisig[last.key].threshold = multisig[last.key].member_count
    /\ multisig[last.key].member_count = Len(multisig[last.key].members)

\* C2: Execute succeeds only on a proposal that is Active and has
\* approved.len() >= the threshold stored in the MultisigState at that moment;
\* with fewer approvals it fails and the proposal stays Active.
C2_ExecuteNeedsThreshold ==
    \A k \in Keys, c \in Ids, a \in BOOLEAN, i \in ProposalIndexArgs, b \in BOOLEAN :
        LET res == execute_handle(Pre(k), c, a, i, b)
            found == get_proposal(proposals, k, i)
        IN  /\ res.ok =>
                    \E p \in found :
                        p.status = "Active" /\ Len(p.approved) >= multisig[k].threshold
            /\ \A p \in found :
                    (p.status = "Active" /\ Len(p.approved) < multisig[k].threshold)
                        => (~res.ok /\ p \in res.proposals)

\* an Active proposal is short of the threshold and a member's Execute fails
C2_Witness ==
    \E k \in Keys, c \in Ids :
        \E p \in ProposalsOf(k) :
            /\ p.status = "Active"
            /\ Len(p.approved) < multisig[k].threshold
            /\ Len(p.approved) + 1 = multisig[k].threshold
            /\ c \in Range(multisig[k].members)
            /\ ~execute_handle(Pre(k), c, TRUE, p.index, TRUE).ok

C4_ExecutedOnce ==
    \A k \in Keys, c \in Ids, a \in BOOLEAN, i \in ProposalIndexArgs, b \in BOOLEAN :
        LET res == execute_handle(Pre(k), c, a, i, b)
        IN  res.ok =>
                /\ \E p \in get_proposal(res.proposals, k, i) : p.status = "Executed"
                /\ \A c2 \in Ids, b2 \in BOOLEAN :
                        ~execute_handle(World(res.state, res.proposals), c2, TRUE, i, b2).ok
                /\ Len(res.chained_calls) <= 1

\* C5: an instruction that fails leaves the MultisigState and every Proposal
\* as they were and emits no delegated call.
C5_FailureChangesNothing ==
    \A k \in Keys :
        LET Unchanged(res) ==
                ~res.ok => /\ res.state = multisig[k]
                           /\ res.proposals = proposals
                           /\ res.chained_calls = <<>>
        IN  /\ \A t \in ThresholdArgs, ms \in CreateMemberLists, f \in BOOLEAN :
                    Unchanged(create_multisig_handle(Pre(k), k, t, ms, f))
            /\ \A c \in Ids, a \in BOOLEAN, r \in AccountRefs :
                    /\ \A d \in CallDescriptors :
                            Unchanged(propose_handle(Pre(k), c, a, r, d))
                    /\ \A x \in ConfigActions :
                            Unchanged(propose_config_handle(Pre(k), c, a, r, x))
                    /\ Unchanged(approve_handle(Pre(k), c, a, r, r[2]))
            /\ \A c \in Ids, a \in BOOLEAN, i \in ProposalIndexArgs, o \in BOOLEAN :
                    /\ Unchanged(reject_handle(Pre(k), c, a, i, o))
                    /\ Unchanged(execute_handle(Pre(k), c, a, i, o))

\* a RemoveMember proposal with enough approvals fails in Execute after its
\* arm has taken the member out of the working copy
C5_Witness ==
    \E k \in Keys, c \in Ids :
        \E p \in ProposalsOf(k) :
            /\ p.status = "Active"
            /\ p.config_action.type = "RemoveMember"
            /\ has_threshold(p, multisig[k].threshold)
            /\ c \in Range(multisig[k].members)
            /\ execute_remove_member(multisig[k], p.config_action.member).state # multisig[k]
            /\ ~execute_handle(Pre(k), c, TRUE, p.index, TRUE).ok

C7_StatusTransitions ==
    [][\A p \in proposals :
         \E q \in proposals' :
            /\ SameProposal(p, q)
            /\ q.status # "Cancelled"
            /\ \/ q.status = p.status
               \/ /\ p.status = "Active"
                  /\ q.status = "Executed"
                  /\ last'.op = "Execute" /\ last'.proposal = p
               \/ /\ p.status = "Active"
                  /\ q.status = "Rejected"
                  /\ last'.op = "Reject" /\ last'.proposal = p]_vars

\* C8: once a proposal is Executed or Rejected, every Approve, Reject and
\* Execute on it fails, and the record never changes again.
C8_TerminalIsFinal ==
    [][\A p \in proposals :
         Terminal(p) =>
            /\ p \in proposals'
            /\ \A c \in Ids, a \in BOOLEAN, o \in BOOLEAN :
                  LET k == p.multisig_create_key
                  IN  /\ ~approve_handle(Pre(k), c, a, <<k, p.index>>, p.index).ok
                      /\ ~reject_handle(Pre(k), c, a, p.index, o).ok
                      /\ ~execute_handle(Pre(k), c, a, p.index, o).ok]_vars

\* C9: in every proposal, approved and rejected are disjoint and neither
\* holds an identity twice.
C9_OneVotePerMember ==
    \A p \in proposals :
        /\ Range(p.approved) \cap Range(p.rejected) = {}
        /\ NoDuplicates(p.approved)
        /\ NoDuplicates(p.rejected)

\* a member who had rejected the proposal has just approved it
C9_Witness ==
    /\ last.op = "Approve"
    /\ last.caller \in Range(last.proposal.rejected)
    /\ \E q \in proposals :
            /\ SameProposal(q, last.proposal)
            /\ last.caller \in Range(q.approved)
            /\ last.caller \notin Range(q.rejected)

\* C10: an Approve by a member already in approved fails and leaves the
\* proposal as it was; so does a Reject by a member already in rejected.
C10_DuplicateVoteFails ==
    \A k \in Keys, c \in Ids, a \in BOOLEAN :
        /\ \A r \in AccountRefs, i \in ProposalIndexArgs :
                \A p \in AccountRecords(proposals, r) :
                    c \in Range(p.approved) =>
                        LET res == approve_handle(Pre(k), c, a, r, i)
                        IN  ~res.ok /\ p \in res.proposals
        /\ \A i \in ProposalIndexArgs, o \in BOOLEAN :
                \A p \in get_proposal(proposals, k, i) :
                    c \in Range(p.rejected) =>
                        LET res == reject_handle(Pre(k), c, a, i, o)
                        IN  ~res.ok /\ p \in res.proposals

\* an Active proposal holds the approval of its proposer alone and the
\* rejection of another member; both repeat their vote, signed, and fail
C10_Witness ==
    \E k \in Keys, c \in Ids :
        \E p \in ProposalsOf(k) :
            /\ p.status = "Active"
            /\ p.approved = <<p.proposer>>
            /\ p.proposer \in Range(multisig[k].members)
            /\ ~approve_handle(Pre(k), p.proposer, TRUE, <<k, p.index>>, p.index).ok
            /\ c \in Range(p.rejected)
            /\ c \in Range(multisig[k].members)
            /\ ~reject_handle(Pre(k), c, TRUE, p.index, TRUE).ok

\* C11: a successful Approve by m gives approved + {m} and rejected - {m}; a
\* successful Reject by m gives rejected + {m} and approved - {m}; the votes
\* of the other members stay as they were.
C11_VoteMovesOnlyTheVoter ==
    \A k \in Keys, c \in Ids, a \in BOOLEAN :
        /\ \A r \in AccountRefs :
                \A p \in AccountRecords(proposals, r) :
                    approve_handle(Pre(k), c, a, r, r[2]).ok =>
                        \E q \in approve_handle(Pre(k), c, a, r, r[2]).proposals :
                            /\ SameProposal(p, q)
                            /\ p.status = "Active"
                            /\ Range(q.approved) = Range(p.approved) \cup {c}
                            /\ Range(q.rejected) = Range(p.rejected) \ {c}
        /\ \A i \in ProposalIndexArgs, o \in BOOLEAN :
                \A p \in get_proposal(proposals, k, i) :
                    reject_handle(Pre(k), c, a, i, o).ok =>
                        \E q \in reject_handle(Pre(k), c, a, i, o).proposals :
                            /\ SameProposal(p, q)
                            /\ p.status = "Active"
                            /\ Range(q.rejected) = Range(p.rejected) \cup {c}
                            /\ Range(q.approved) = Range(p.approved) \ {c}

\* a member other than the proposer, who had approved, has just rejected:
\* the vote moved, the proposer's approval is still there
C11_Witness ==
    /\ last.op = "Reject"
    /\ last.caller # last.proposal.proposer
    /\ last.caller \in Range(last.proposal.approved)
    /\ \E q \in proposals :
            /\ SameProposal(q, last.proposal)
            /\ last.caller \in Range(q.rejected)
            /\ last.caller \notin Range(q.approved)
            /\ q.proposer \in Range(q.approved)

\* C12: after a successful Reject the proposal is Rejected if and only if
\* member_count - rejected.len() < threshold, with the member_count and
\* threshold of the MultisigState and the rejected set after the vote;
\* otherwise it is Active.
C12_RejectedIffDead ==
    \A k \in Keys, c \in Ids, a \in BOOLEAN, i \in ProposalIndexArgs, o \in BOOLEAN :
        reject_handle(Pre(k), c, a, i, o).ok =>
            /\ get_proposal(reject_handle(Pre(k), c, a, i, o).proposals, k, i) # {}
            /\ \A q \in get_proposal(reject_handle(Pre(k), c, a, i, o).proposals, k, i) :
                    /\ q.status \in {"Active", "Rejected"}
                    /\ (q.status = "Rejected") <=>
                            (multisig[k].member_count - Len(q.rejected)
                                < multisig[k].threshold)

\* a 2-of-3 proposal has just become Rejected by its second rejection
C12_Witness ==
    /\ last.op = "Reject"
    /\ multisig[last.key].threshold = 2
    /\ multisig[last.key].member_count = 3
    /\ last.proposal.status = "Active"
    /\ Len(last.proposal.rejected) = 1
    /\ \E q \in proposals :
            /\ SameProposal(q, last.proposal)
            /\ Len(q.rejected) = 2
            /\ q.status = "Rejected"

MembersWithout(state, x) == {j \in 1..Len(state.members) : state.members[j] # x}

\* an Execute of p by c that passes every check made before the arm runs
ReadyToExecute(k, p, c, a) ==
    /\ a
    /\ c \in Range(multisig[k].members)
    /\ p.status = "Active"
    /\ Len(p.approved) >= multisig[k].threshold

\* C14: Execute of RemoveMember(x) fails, changing nothing and leaving the
\* proposal Active, when x is not a member or when fewer than threshold
\* members would be left; otherwise x is removed and member_count recomputed.
C14_RemoveMemberGuard ==
    \A k \in Keys :
        /\ \A x \in Ids :
                x \notin Range(multisig[k].members) =>
                    ~execute_remove_member(multisig[k], x).ok
        /\ \A c \in Ids, a \in BOOLEAN, i \in ProposalIndexArgs, b \in BOOLEAN :
                \A p \in get_proposal(proposals, k, i) :
                    p.config_action.type = "RemoveMember" =>
                        LET x == p.config_action.member
                            st == multisig[k]
                            left == Cardinality(MembersWithout(st, x))
                            blocked == x \notin Range(st.members) \/ left < st.threshold
                            res == execute_handle(Pre(k), c, a, i, b)
                        IN  /\ blocked =>
                                    /\ ~res.ok
                                    /\ res.state = st
                                    /\ p \in res.proposals
                            /\ (ReadyToExecute(k, p, c, a) /\ ~blocked) => res.ok
                            /\ res.ok =>
                                    /\ Range(res.state.members) = Range(st.members) \ {x}
                                    /\ Len(res.state.members) = left
                                    /\ res.state.member_count = left
                                    /\ res.state.threshold = st.threshold

\* 3 members, threshold 3, a RemoveMember proposal approved by all three:
\* the Execute fails
C14_Witness ==
    \E k \in Keys, c \in Ids :
        \E p \in ProposalsOf(k) :
            /\ p.config_action.type = "RemoveMember"
            /\ multisig[k].threshold = 3
            /\ multisig[k].member_count = 3
            /\ Len(p.approved) = 3
            /\ ReadyToExecute(k, p, c, TRUE)
            /\ ~execute_handle(Pre(k), c, TRUE, p.index, TRUE).ok

\* C15: Execute of an approved AddMember(d) fails if d is a member or
\* member_count = 10; otherwise it appends d, sets member_count to the new
\* length, keeps threshold and leaves the proposal stored as Executed.
C15_AddMemberExecutes ==
    \A k \in Keys, c \in Ids, a \in BOOLEAN, i \in ProposalIndexArgs, b \in BOOLEAN :
        \A p \in get_proposal(proposals, k, i) :
            p.config_action.type = "AddMember" =>
                LET d == p.config_action.member
                    st == multisig[k]
                    blocked == d \in Range(st.members) \/ st.member_count = MaxMembers
                    res == execute_handle(Pre(k), c, a, i, b)
                IN  /\ blocked => ~res.ok
                    /\ (ReadyToExecute(k, p, c, a) /\ ~blocked) => res.ok
                    /\ res.ok =>
                            /\ res.state.members = Append(st.members, d)
                            /\ res.state.member_count = Len(st.members) + 1
                            /\ res.state.threshold = st.threshold
                            /\ \E q \in get_proposal(res.proposals, k, i) :
                                    q.status = "Executed"

\* C16: Execute of an approved ChangeThreshold(v) succeeds if and only if
\* 1 <= v <= member_count; then threshold is v and members, member_count are
\* unchanged; when it fails threshold is unchanged.
C16_ChangeThresholdExecutes ==
    \A k \in Keys, c \in Ids, a \in BOOLEAN, i \in ProposalIndexArgs, b \in BOOLEAN :
        \A p \in get_proposal(proposals, k, i) :
            p.config_action.type = "ChangeThreshold" =>
                LET v == p.config_action.new_threshold
                    st == multisig[k]
                    inside == 1 <= v /\ v <= st.member_count
                    res == execute_handle(Pre(k), c, a, i, b)
                IN  /\ res.ok => inside
                    /\ (ReadyToExecute(k, p, c, a) /\ inside) => res.ok
                    /\ res.ok =>
                            /\ res.state.threshold = v
                            /\ res.state.members = st.members
                            /\ res.state.member_count = st.member_count
                    /\ ~res.ok => res.state.threshold = st.threshold

\* an approved ChangeThreshold(v) with v above member_count fails in Execute
C16_Witness ==
    \E k \in Keys, c \in Ids :
        \E p \in ProposalsOf(k) :
            /\ p.config_action.type = "ChangeThreshold"
            /\ p.config_action.new_threshold > multisig[k].member_count
            /\ ReadyToExecute(k, p, c, TRUE)
            /\ ~execute_handle(Pre(k), c, TRUE, p.index, TRUE).ok

\* a ProposeConfig by c that passes every check made before the action is
\* looked at
ReadyToPropose(k, c, a, r) ==
    /\ a
    /\ multisig[k].initialized
    /\ c \in Range(multisig[k].members)
    /\ AccountRecords(proposals, r) = {}

\* C17: ProposeConfig by a member fails, creating no proposal and leaving
\* the counter, for AddMember of a member, AddMember at 10 members,
\* RemoveMember of a non-member and ChangeThreshold(0); it succeeds for every
\* other action, ChangeThreshold(v) with v > member_count and a RemoveMember
\* that would break the threshold included.
C17_ProposeConfigPreChecks ==
    \A k \in Keys, c \in Ids, a \in BOOLEAN, r \in AccountRefs, x \in ConfigActions :
        LET st == multisig[k]
            refused ==
                \/ x.type = "AddMember" /\ x.member \in Range(st.members)
                \/ x.type = "AddMember" /\ st.member_count >= MaxMembers
                \/ x.type = "RemoveMember" /\ x.member \notin Range(st.members)
                \/ x.type = "ChangeThreshold" /\ x.new_threshold = 0
            res == propose_config_handle(Pre(k), c, a, r, x)
        IN  /\ refused =>
                    /\ ~res.ok
                    /\ res.proposals = proposals
                    /\ res.state.transaction_index = st.transaction_index
            /\ (ReadyToPropose(k, c, a, r) /\ ~refused) => res.ok

\* a ChangeThreshold(v) with v above member_count has just been proposed
C17_Witness ==
    /\ last.op = "ProposeConfig"
    /\ last.proposal.config_action.type = "ChangeThreshold"
    /\ last.proposal.config_action.new_threshold > multisig[last.key].member_count
    /\ last.proposal \in proposals

\* what C18 says of the proposal q a successful Propose-family call by c
\* made from the state st, res being the outcome of the handler
CreatedBy(k, c, r, res, q) ==
    /\ AccountRecords(proposals, r) = {}
    /\ res.state.transaction_index = multisig[k].transaction_index + 1
    /\ res.state.threshold = multisig[k].threshold
    /\ res.state.members = multisig[k].members
    /\ res.state.member_count = multisig[k].member_count
    /\ q \notin proposals
    /\ res.proposals = proposals \cup {q}
    /\ q.index = res.state.transaction_index
    /\ q.proposer = c
    /\ q.multisig_create_key = multisig[k].create_key
    /\ q.approved = <<c>>
    /\ q.rejected = <<>>
    /\ q.status = "Active"

\* C18: a successful Propose or ProposeConfig by p on an uninitialized
\* proposal account adds 1 to the counter, keeps threshold and members, and
\* creates a proposal with the new counter as index, proposer p, the key of
\* the state, approved = {p}, rejected = {}, status Active, holding the call
\* descriptor or the config action, never both.
C18_ProposeCreates ==
    \A k \in Keys, c \in Ids, a \in BOOLEAN, r \in AccountRefs :
        /\ \A d \in CallDescriptors :
                LET res == propose_handle(Pre(k), c, a, r, d)
                IN  res.ok =>
                        \E q \in res.proposals :
                            /\ CreatedBy(k, c, r, res, q)
                            /\ q.call = d
                            /\ q.config_action.type = "None"
        /\ \A x \in ConfigActions :
                LET res == propose_config_handle(Pre(k), c, a, r, x)
                IN  res.ok =>
                        \E q \in res.proposals :
                            /\ CreatedBy(k, c, r, res, q)
                            /\ q.config_action = x
                            /\ q.call = NoCall

\* the second proposal of a multisig has just been created by a Propose
C18_Witness ==
    /\ last.op = "Propose"
    /\ last.proposal \in proposals
    /\ last.proposal.index = 2
    /\ multisig[last.key].transaction_index = 2
    /\ last.proposal.approved = <<last.caller>>
    /\ last.proposal.call \in CallDescriptors

ProposalIndices(k) == {p.index : p \in ProposalsOf(k)}

\* C19: the counter is 0 at creation, changes only by +1, on a successful
\* Propose or ProposeConfig whose proposal gets the new value as index, and
\* the indices of the proposals of a multisig are pairwise distinct and are
\* exactly 1..counter.
C19_CounterNumbersProposals ==
    /\ [](\A k \in Keys :
            /\ ProposalIndices(k) = 1..multisig[k].transaction_index
            /\ Cardinality(ProposalsOf(k)) = multisig[k].transaction_index)
    /\ [][\A k \in Keys :
            /\ (~multisig[k].initialized /\ multisig'[k].initialized)
                    => multisig'[k].transaction_index = 0
            /\ \/ multisig'[k].transaction_index = multisig[k].transaction_index
               \/ /\ multisig'[k].transaction_index = multisig[k].transaction_index + 1
                  /\ last'.op \in {"Propose", "ProposeConfig"}
                  /\ last'.key = k
                  /\ last'.proposal.index = multisig'[k].transaction_index]_vars

\* C20, as stated: on an uninitialized state account CreateMultisig succeeds
\* if and only if 1 <= t <= n <= 10.
C20_CreateIffBounds ==
    \A k \in Keys, t \in ThresholdArgs, ms \in CreateMemberLists, f \in BOOLEAN :
        ~multisig[k].initialized =>
            (create_multisig_handle(Pre(k), k, t, ms, f).ok
                <=> (1 <= t /\ t <= Len(ms) /\ Len(ms) <= MaxMembers))

\* C20, amended: on an uninitialized state account, and with the account of
\* every listed member passed uninitialized and in the order of the list,
\* CreateMultisig succeeds if and only if 1 <= t <= n <= 10; without those
\* accounts it fails.
C20_CreateIffBoundsAndAccounts ==
    \A k \in Keys, t \in ThresholdArgs, ms \in CreateMemberLists, f \in BOOLEAN :
        ~multisig[k].initialized =>
            (create_multisig_handle(Pre(k), k, t, ms, f).ok
                <=> (f /\ 1 <= t /\ t <= Len(ms) /\ Len(ms) <= MaxMembers))

\* no multisig exists yet; a list of 10 members is accepted, a list of 11
\* and a threshold above the length are refused
C20_Witness ==
    \E k \in Keys :
        /\ ~multisig[k].initialized
        /\ create_multisig_handle(Pre(k), k, 1, LongList(MaxMembers), TRUE).ok
        /\ ~create_multisig_handle(Pre(k), k, 1, LongList(MaxMembers + 1), TRUE).ok
        /\ ~create_multisig_handle(Pre(k), k, 2, <<"A">>, TRUE).ok
        /\ ~create_multisig_handle(Pre(k), k, 0, <<"A">>, TRUE).ok
        /\ ~create_multisig_handle(Pre(k), k, 1, <<>>, TRUE).ok

\* C21: a CreateMultisig on a state account that already holds a
\* MultisigState fails, whatever its arguments, and the threshold, the
\* members and the counter stay as they were.
C21_CreatedOnce ==
    \A k \in Keys, t \in ThresholdArgs, ms \in CreateMemberLists, f \in BOOLEAN :
        multisig[k].initialized =>
            LET res == create_multisig_handle(Pre(k), k, t, ms, f)
            IN  /\ ~res.ok
                /\ res.state.threshold = multisig[k].threshold
                /\ res.state.members = multisig[k].members
                /\ res.state.member_count = multisig[k].member_count
                /\ res.state.transaction_index = multisig[k].transaction_index
                /\ res.proposals = proposals

\* a multisig that has numbered a proposal is given a CreateMultisig with
\* other, valid arguments and fresh member accounts
C21_Witness ==
    \E k \in Keys, t \in ThresholdArgs, ms \in CreateMemberLists :
        /\ multisig[k].initialized
        /\ multisig[k].transaction_index > 0
        /\ 1 <= t /\ t <= Len(ms) /\ Len(ms) <= MaxMembers
        /\ ms # multisig[k].members
        /\ t # multisig[k].threshold
        /\ ~create_multisig_handle(Pre(k), k, t, ms, TRUE).ok

\* an Active delegated-call proposal of multisig k with enough approvals
ReadyCall(k, p) ==
    /\ p \in ProposalsOf(k)
    /\ p.status = "Active"
    /\ p.config_action.type = "None"
    /\ Len(p.approved) >= multisig[k].threshold

\* C22: a successful Execute of a delegated-call proposal emits exactly one
\* call: program, instruction data and seeds as the proposal recorded them,
\* the target accounts it was given in their order, the account at position
\* i authorized if and only if i is among the recorded authorized indices.
C22_ExecuteEmitsRecordedCall ==
    \A k \in Keys, c \in Ids, a \in BOOLEAN, i \in ProposalIndexArgs, b \in BOOLEAN :
        \A ta \in TargetAccountLists :
            LET res == execute(Pre(k), c, a, <<k, i>>, ta, i, b)
            IN  \A p \in get_proposal(proposals, k, i) :
                    (res.ok /\ p.config_action.type = "None") =>
                        /\ Len(res.chained_calls) = 1
                        /\ LET call == res.chained_calls[1]
                           IN  /\ call.program_id = p.call.target_program_id
                               /\ call.instruction_data = p.call.target_instruction_data
                               /\ call.pda_seeds = p.call.pda_seeds
                               /\ Len(call.pre_states) = Len(ta)
                               /\ \A j \in 1..Len(ta) :
                                    /\ call.pre_states[j].account = ta[j]
                                    /\ call.pre_states[j].is_authorized
                                         = contains(p.call.authorized_indices, j - 1)

\* C23: an Execute of a delegated-call proposal given more or fewer target
\* accounts than the recorded target_account_count fails, the proposal stays
\* Active and no call is emitted, even with approvals at the threshold.
C23_AccountCountMustMatch ==
    \A k \in Keys, c \in Ids, a \in BOOLEAN, b \in BOOLEAN, ta \in TargetAccountLists :
        \A p \in ProposalsOf(k) :
            (ReadyCall(k, p) /\ Len(ta) # p.call.target_account_count) =>
                LET res == execute(Pre(k), c, a, <<k, p.index>>, ta, p.index, b)
                IN  /\ ~res.ok
                    /\ p \in res.proposals
                    /\ res.chained_calls = <<>>

\* C24: no instruction emits more than one delegated call, and an
\* instruction that emits one is a successful Execute of a delegated-call
\* proposal: CreateMultisig, Propose, ProposeConfig, Approve, Reject, an
\* Execute of a config proposal and every failing instruction emit none.
C24_OnlyExecuteEmits ==
    \A k \in Keys :
        LET Silent(res) == res.chained_calls = <<>>
        IN  /\ \A t \in ThresholdArgs, ms \in CreateMemberLists, f \in BOOLEAN :
                    Silent(create_multisig_handle(Pre(k), k, t, ms, f))
            /\ \A c \in Ids, a \in BOOLEAN, r \in AccountRefs :
                    /\ \A d \in CallDescriptors :
                            Silent(propose_handle(Pre(k), c, a, r, d))
                    /\ \A x \in ConfigActions :
                            Silent(propose_config_handle(Pre(k), c, a, r, x))
                    /\ Silent(approve_handle(Pre(k), c, a, r, r[2]))
                    /\ \A o \in BOOLEAN : Silent(reject(Pre(k), c, a, r, r[2], o))
                    /\ \A b \in BOOLEAN, ta \in TargetAccountLists :
                            LET res == execute(Pre(k), c, a, r, ta, r[2], b)
                            IN  /\ Len(res.chained_calls) <= 1
                                /\ ~Silent(res) =>
                                        /\ res.ok
                                        /\ \E p \in get_proposal(proposals, k, r[2]) :
                                                p.config_action.type = "None"

\* a member can propose a call, and an Execute of a config proposal that has
\* its approvals succeeds; neither emits anything
C24_Witness ==
    \E k \in Keys, c \in Ids :
        \E p \in ProposalsOf(k) :
            /\ p.status = "Active"
            /\ p.config_action.type # "None"
            /\ execute(Pre(k), c, TRUE, <<k, p.index>>, <<>>, p.index, TRUE).ok
            /\ \E d \in CallDescriptors :
                    propose_handle(Pre(k), c, TRUE, <<k, 0>>, d).ok

\* C25: a successful Approve, Reject or Execute of a delegated-call proposal
\* leaves create_key, threshold, members, member_count and the counter as
\* they were, and a successful Propose changes the counter and nothing else.
C25_StateFrame ==
    \A k \in Keys, c \in Ids, a \in BOOLEAN, r \in AccountRefs :
        LET Same(res) == res.ok => res.state = multisig[k]
        IN  /\ Same(approve_handle(Pre(k), c, a, r, r[2]))
            /\ \A o \in BOOLEAN : Same(reject(Pre(k), c, a, r, r[2], o))
            /\ \A b \in BOOLEAN, ta \in TargetAccountLists :
                    (\E p \in get_proposal(proposals, k, r[2]) :
                            p.config_action.type = "None")
                        => Same(execute(Pre(k), c, a, r, ta, r[2], b))
            /\ \A d \in CallDescriptors :
                    LET res == propose_handle(Pre(k), c, a, r, d)
                    IN  res.ok =>
                            /\ res.state.transaction_index # multisig[k].transaction_index
                            /\ [res.state EXCEPT !.transaction_index =
                                        multisig[k].transaction_index] = multisig[k]

\* a delegated-call proposal that one member can approve, another member
\* can reject and a third can execute, in a multisig that can take a Propose
C25_Witness ==
    \E k \in Keys, c1, c2, c3 \in Ids :
        \E p \in ProposalsOf(k) :
            /\ ReadyCall(k, p)
            /\ approve_handle(Pre(k), c1, TRUE, <<k, p.index>>, p.index).ok
            /\ reject(Pre(k), c2, TRUE, <<k, p.index>>, p.index, TRUE).ok
            /\ execute(Pre(k), c3, TRUE, <<k, p.index>>, <<"src", "dst">>, p.index, TRUE).ok
            /\ multisig[k].threshold > 1

\* C26: an Approve, Reject or Execute given a proposal account whose record
\* carries another create_key than the MultisigState it is given fails and
\* changes nothing.
C26_ForeignProposalRefused ==
    \A k \in KeysTwo, c \in TwoIds, a \in BOOLEAN, r \in AccountRefsTwo :
        \A held \in AccountRecords(proposals, r) :
            (multisig[k].initialized
                    /\ held.multisig_create_key # multisig[k].create_key) =>
                LET Refused(res) == /\ ~res.ok
                                    /\ res.state = multisig[k]
                                    /\ res.proposals = proposals
                IN  /\ Refused(approve_handle(Pre(k), c, a, r, r[2]))
                    /\ \A i \in ProposalIndexArgs, o \in BOOLEAN :
                            Refused(reject(Pre(k), c, a, r, i, o))
                    /\ \A i \in ProposalIndexArgs, b \in BOOLEAN :
                            Refused(execute(Pre(k), c, a, r, <<"src", "dst">>, i, b))

\* the records an instruction leaves behind
Post(res) == World(res.state, res.proposals)

\* C27: an instruction that succeeded fails when it is submitted again on
\* the records it left, and changes nothing: the same CreateMultisig, the
\* same Propose on the proposal account that now holds its proposal, the same
\* member's Approve, the same member's Reject, the same Execute.
C27_ReplayFails ==
    \A k \in Keys :
        LET Refused(first, again) ==
                first.ok => /\ ~again.ok
                            /\ again.state = first.state
                            /\ again.proposals = first.proposals
        IN  /\ \A t \in ThresholdArgs, ms \in CreateMemberLists, f \in BOOLEAN :
                    LET first == create_multisig_handle(Pre(k), k, t, ms, f)
                    IN  Refused(first,
                                create_multisig_handle(Post(first), k, t, ms, f))
            /\ \A c \in Ids, a \in BOOLEAN, r \in AccountRefs :
                    /\ \A d \in CallDescriptors :
                            LET first == propose_handle(Pre(k), c, a, r, d)
                                used == <<k, first.state.transaction_index>>
                            IN  Refused(first, propose_handle(Post(first), c, a, used, d))
                    /\ LET first == approve_handle(Pre(k), c, a, r, r[2])
                       IN  Refused(first, approve_handle(Post(first), c, a, r, r[2]))
                    /\ \A o \in BOOLEAN :
                            LET first == reject(Pre(k), c, a, r, r[2], o)
                            IN  Refused(first, reject(Post(first), c, a, r, r[2], o))
                    /\ \A b \in BOOLEAN, ta \in TargetAccountLists :
                            LET first == execute(Pre(k), c, a, r, ta, r[2], b)
                            IN  Refused(first, execute(Post(first), c, a, r, ta, r[2], b))

\* an Execute has just succeeded, and the same Execute is refused
C27_Witness ==
    /\ last.op = "Execute"
    /\ last.key \in Keys
    /\ multisig[last.key].transaction_index >= 1
    /\ ~execute(Pre(last.key), last.caller, TRUE, <<last.key, last.proposal.index>>,
                <<"src", "dst">>, last.proposal.index, TRUE).ok

\* C28: a step that changes or removes an Active proposal is a successful
\* Approve, Reject or Execute on that proposal; an instruction on proposal i
\* leaves every other proposal j in place and as it was.
C28_IndependentLifecycles ==
    [][\A p \in proposals :
            p.status = "Active" =>
                \/ p \in proposals'
                \/ /\ last'.op \in {"Approve", "Reject", "Execute"}
                   /\ last'.proposal = p]_vars

\* the derivations made so far
Derivations == {derived[n] : n \in 1..2} \ {NoDerivation}

\* C29: deriving again from the same inputs gives the same seeds; for one
\* create_key the proposal seeds of different indices differ, and the
\* proposal seed, the state seed and the vault seed differ from each other.
C29_SeedsOfOneKey ==
    \A d \in Derivations, e \in Derivations :
        /\ d.state = multisig_state_pda_seed(d.create_key)
        /\ d.proposal = proposal_pda_seed(d.create_key, d.proposal_index)
        /\ d.vault = vault_pda_seed(d.create_key)
        /\ d.create_key = e.create_key =>
                /\ d.state = e.state
                /\ d.vault = e.vault
                /\ d.proposal_index = e.proposal_index => d.proposal = e.proposal
                /\ d.proposal_index # e.proposal_index => d.proposal # e.proposal
                /\ d.proposal # e.state
                /\ d.proposal # e.vault
                /\ d.state # e.vault

\* the seeds of one create_key were derived for two proposal indices, the
\* key being one whose last byte the index is mixed into
C29_Witness ==
    /\ NoDerivation \notin {derived[1], derived[2]}
    /\ derived[1].create_key = derived[2].create_key
    /\ derived[1].proposal_index # derived[2].proposal_index
    /\ derived[1].create_key[SeedLen] = derived[2].proposal_index
    /\ derived[1].create_key[SeedLen] # 0

\* C30: for any two create_keys, equal or not, and any index, a state seed
\* is no vault seed and no proposal seed, and a vault seed is no proposal
\* seed.
C30_NamespacesNeverCollide ==
    \A d \in Derivations, e \in Derivations :
        /\ d.state # e.vault
        /\ d.state # e.proposal
        /\ d.vault # e.proposal

\* the fields of a proposal that say what was proposed, by whom and where
Identity(p) ==
    <<p.index, p.proposer, p.multisig_create_key, p.call, p.config_action>>

\* C31: Approve, Reject and Execute leave index, proposer,
\* multisig_create_key, the call descriptor and the config action of every
\* proposal as Propose or ProposeConfig wrote them; what they change of a
\* proposal is among approved, rejected and status, and they create none.
C31_IdentityFieldsKept ==
    \A k \in Keys, c \in Ids, a \in BOOLEAN, r \in AccountRefs :
        \A i \in ProposalIndexArgs, f \in BOOLEAN :
            \A res \in { approve_handle(Pre(k), c, a, r, i),
                         reject(Pre(k), c, a, <<k, i>>, i, f),
                         execute(Pre(k), c, a, <<k, i>>, <<"src", "dst">>, i, f) } :
                \A q \in res.proposals :
                    \E p \in proposals :
                        /\ SameProposal(p, q)
                        /\ Identity(p) = Identity(q)

\* a member other than the proposer has rejected the proposal, which still
\* names its proposer
C31_Witness ==
    /\ last.op = "Reject"
    /\ last.caller # last.proposal.proposer
    /\ \E p \in proposals :
            /\ SameProposal(p, last.proposal)
            /\ Identity(p) = Identity(last.proposal)
            /\ contains(p.rejected, last.caller)
            /\ ~contains(last.proposal.rejected, last.caller)

\* two Active AddMember proposals of multisig k for one identity, each with
\* enough approvals
TwinAddMember(k, p1, p2) ==
    /\ p1 \in ProposalsOf(k) /\ p2 \in ProposalsOf(k)
    /\ p1.index # p2.index
    /\ p1.config_action.type = "AddMember"
    /\ p2.config_action = p1.config_action
    /\ \A p \in {p1, p2} : p.status = "Active" /\ Len(p.approved) >= multisig[k].threshold

\* C32: the members of a multisig whose members are pairwise distinct stay
\* pairwise distinct under every instruction; when two approved AddMember
\* proposals for one identity exist together and one is executed, the Execute
\* of the other fails and adds nothing.
C32_MembersStayDistinct ==
    /\ [](\A k \in Keys, c \in Ids, p1 \in proposals, p2 \in proposals :
            TwinAddMember(k, p1, p2) =>
                LET first == execute(Pre(k), c, TRUE, <<k, p1.index>>, <<"src", "dst">>,
                                     p1.index, TRUE)
                    second == execute(Post(first), c, TRUE, <<k, p2.index>>,
                                      <<"src", "dst">>, p2.index, TRUE)
                IN  first.ok => /\ ~second.ok
                                /\ second.state.members = first.state.members)
    /\ [][\A k \in Keys :
            (multisig[k].initialized /\ NoDuplicates(multisig[k].members))
                => NoDuplicates(multisig'[k].members)]_vars

\* two approved AddMember proposals for one identity exist, and a member's
\* Execute of the first adds the identity
C32_Witness ==
    \E k \in Keys, c \in Ids, p1 \in proposals, p2 \in proposals :
        /\ TwinAddMember(k, p1, p2)
        /\ NoDuplicates(multisig[k].members)
        /\ LET first == execute(Pre(k), c, TRUE, <<k, p1.index>>, <<"src", "dst">>,
                                 p1.index, TRUE)
           IN  /\ first.ok
               /\ contains(first.state.members, p1.config_action.member)
               /\ Len(first.state.members) = Len(multisig[k].members) + 1

\* C33: member_count is the length of members in every MultisigState that
\* was created, also once a RemoveMember has taken out an identity that was
\* in the list more than once.
C33_CountIsLength ==
    \A k \in Keys :
        multisig[k].initialized => multisig[k].member_count = Len(multisig[k].members)

\* an Execute of RemoveMember(m) that succeeds and takes two entries out of
\* the list, m being a member twice
C33_Witness ==
    \E k \in Keys, c \in Ids, p \in proposals :
        /\ p \in ProposalsOf(k)
        /\ p.config_action.type = "RemoveMember"
        /\ Cardinality({j \in 1..Len(multisig[k].members) :
                            multisig[k].members[j] = p.config_action.member}) = 2
        /\ LET res == execute(Pre(k), c, TRUE, <<k, p.index>>, <<"src", "dst">>,
                               p.index, TRUE)
           IN  /\ res.ok
               /\ Len(res.state.members) = Len(multisig[k].members) - 2
               /\ res.state.member_count = multisig[k].member_count - 2

\* C34: in every MultisigState that was created the number of distinct
\* identities among the members is at least the threshold, so that a quorum
\* of approvals can be reached.
C34_QuorumAttainable ==
    \A k \in Keys :
        multisig[k].initialized =>
            Cardinality(Range(multisig[k].members)) >= multisig[k].threshold

\* a Reject of p by c that gets as far as is_dead
RejectEvaluated(k, p, c) ==
    /\ multisig[k].initialized
    /\ p \in ProposalsOf(k)
    /\ p.status = "Active"
    /\ c \in Range(multisig[k].members)
    /\ ~contains(p.rejected, c)

Written(res) == res.proposals \ proposals

\* the proposals an instruction changed or deleted
Touched(res) == proposals \ res.proposals

\* C36: the record a Propose writes into the proposal account at the
\* address derived from (multisig_create_key, i) has index i, and a
\* successful Approve, Reject or Execute with proposal_index i changes no
\* proposal but the one whose index field is i.
C36_IndexNamesRecord ==
    \A k \in Keys, c \in Ids, a \in BOOLEAN, r \in AccountRefs :
        /\ \A d \in CallDescriptors :
                LET res == propose_handle(Pre(k), c, a, r, d)
                IN  res.ok => \A q \in Written(res) :
                                  q.multisig_create_key = r[1] /\ q.index = r[2]
        /\ \A i \in ProposalIndexArgs, f \in BOOLEAN :
                \A res \in { approve_handle(Pre(k), c, a, r, i),
                             reject(Pre(k), c, a, r, i, f),
                             execute(Pre(k), c, a, r, <<"src", "dst">>, i, f) } :
                    res.ok => \A p \in Touched(res) : p.index = i

\* members b and c, neither of whom has approved the Active proposal p
TwoApprovers(k, p, b, c) ==
    /\ b # c
    /\ multisig[k].initialized
    /\ p \in ProposalsOf(k)
    /\ p.status = "Active"
    /\ \A m \in {b, c} : m \in Range(multisig[k].members) /\ ~contains(p.approved, m)

\* Approve of p by first, then Approve of p by second on the records left
ApproveBoth(k, p, first, second) ==
    LET one == approve_handle(Pre(k), first, TRUE, <<k, p.index>>, p.index)
        two == approve_handle(Post(one), second, TRUE, <<k, p.index>>, p.index)
    IN  [ok |-> one.ok /\ two.ok, state |-> two.state, proposals |-> two.proposals]

\* what the votes on the proposals amount to, the order of the votes aside
Tally(props) ==
    { <<q.multisig_create_key, q.index, Range(q.approved), Range(q.rejected), q.status>> :
        q \in props }

\* C37: two members who have not approved an Active proposal can approve it
\* in either order: both Approves succeed in both orders, and the approved
\* set, the rejected set and the status of every proposal, and the
\* MultisigState, are the same afterwards.
C37_ApprovalsCommute ==
    \A k \in Keys, b \in Ids, c \in Ids, p \in proposals :
        TwoApprovers(k, p, b, c) =>
            LET bc == ApproveBoth(k, p, b, c)
                cb == ApproveBoth(k, p, c, b)
            IN  /\ bc.ok /\ cb.ok
                /\ bc.state = cb.state
                /\ Tally(bc.proposals) = Tally(cb.proposals)
                /\ \A q \in bc.proposals :
                       SameProposal(p, q) =>
                           /\ Range(q.approved) = Range(p.approved) \cup {b, c}
                           /\ Range(q.rejected) = Range(p.rejected) \ {b, c}
                           /\ q.status = "Active"

\* two members approve in either order, one of them after having rejected
C37_Witness ==
    \E k \in Keys, b \in Ids, c \in Ids, p \in proposals :
        /\ TwoApprovers(k, p, b, c)
        /\ contains(p.rejected, b)
        /\ ApproveBoth(k, p, b, c).ok
        /\ ApproveBoth(k, p, c, b).ok
        /\ ApproveBoth(k, p, b, c).proposals # ApproveBoth(k, p, c, b).proposals

\* the lists of n different identities out of ids
VoterLists(ids, n) ==
    {v \in [1..n -> ids] : \A i, j \in 1..n : v[i] = v[j] => i = j}

\* the voters approve proposal index of multisig k one after the other
RECURSIVE ApproveAll(_, _, _, _)
ApproveAll(world, k, index, voters) ==
    IF voters = <<>> THEN [ok |-> TRUE, state |-> world.state, proposals |-> world.proposals]
    ELSE LET one == approve_handle(world, Head(voters), TRUE, <<k, index>>, index)
             rest == ApproveAll(Post(one), k, index, Tail(voters))
         IN  [ok |-> one.ok /\ rest.ok, state |-> rest.state, proposals |-> rest.proposals]

\* Execute by c of proposal index on the records of world
ExecuteNow(world, k, c, index) ==
    execute(world, c, TRUE, <<k, index>>, <<"src", "dst">>, index, TRUE)

\* C38: the approval of the proposer counts towards the threshold: after a
\* successful Propose, the approvals of any threshold - 1 other members make
\* the Execute by the proposer succeed, one approval less leaves it failing;
\* with threshold 1 the proposer can execute right after the Propose.
C38_ProposerCounts ==
    \A k \in Keys, c \in Ids, r \in AccountRefs, d \in CallDescriptors :
        LET res == propose_handle(Pre(k), c, TRUE, r, d)
            index == res.state.transaction_index
            threshold == multisig[k].threshold
            others == Range(multisig[k].members) \ {c}
        IN  res.ok =>
                /\ threshold = 1 => ExecuteNow(Post(res), k, c, index).ok
                /\ \A voters \in VoterLists(others, threshold - 1) :
                       LET voted == ApproveAll(Post(res), k, index, voters)
                       IN  voted.ok /\ ExecuteNow(Post(voted), k, c, index).ok
                /\ threshold >= 2 =>
                       \A voters \in VoterLists(others, threshold - 2) :
                           LET voted == ApproveAll(Post(res), k, index, voters)
                           IN  voted.ok /\ ~ExecuteNow(Post(voted), k, c, index).ok

\* a proposal of a 2-of-n multisig that its proposer and one more member
\* have approved, and that the proposer can execute
C38_Witness ==
    /\ last.op = "Approve"
    /\ multisig[last.key].threshold = 2
    /\ \E p \in ProposalsOf(last.key) :
            /\ SameProposal(p, last.proposal)
            /\ p.config_action.type = "None"
            /\ p.approved = <<p.proposer, last.caller>>
            /\ ExecuteNow(Pre(last.key), last.key, p.proposer, p.index).ok

\* the members among the authorized signer accounts, each counted once
DistinctMemberSigners(state, signer_accounts) ==
    {acc.account_id : acc \in {a \in Range(signer_accounts) :
                                  a.is_authorized /\ treasury_is_member(state, a.account_id)}}

\* C39: an Execute, AddMember, RemoveMember or ChangeThreshold of the
\* treasury program succeeds only when at least threshold different members
\* are among the authorized signer accounts: a member account listed several
\* times counts once.
C39_DistinctSigners ==
    \A sa \in SignerAccountLists, amount \in Amounts, m \in Ids, t \in ThresholdArgs :
        \A res \in { treasury_execute_handle(treasury, sa, amount),
                     treasury_add_member_handle(treasury, sa, m),
                     treasury_remove_member_handle(treasury, sa, m),
                     treasury_change_threshold_handle(treasury, sa, t) } :
            res.ok =>
                Cardinality(DistinctMemberSigners(treasury.state, sa))
                    >= treasury.state.threshold

\* the (index, status) pairs a list_proposals answer holds
Listed(answer) ==
    {<<answer.proposals[j].index, answer.proposals[j].status>> :
        j \in DOMAIN answer.proposals}

\* C40: for a MultisigState with transaction_index n, each of the two
\* list_proposals queries looks up the indices 1..n and no other, and lists
\* every proposal of the multisig that exists, the latest one included.
C40_ListsEveryProposal ==
    \A k \in Keys :
        multisig[k].initialized =>
            /\ list_proposals_async_indices(multisig[k])
                    = 1..multisig[k].transaction_index
            /\ multisig_queries_list_proposals_indices(multisig[k])
                    = 1..multisig[k].transaction_index
            /\ \A p \in ProposalsOf(k) :
                    /\ <<p.index, p.status>>
                            \in Listed(list_proposals_async(multisig[k], proposals))
                    /\ <<p.index, p.status>>
                            \in Listed(multisig_queries_list_proposals(multisig[k],
                                                                       proposals))

====
